---- MODULE Spec2Model ----
(***************************************************************************)
(* Model of the incremental synchronisation engine of aicook:             *)
(*   Handler.py            record store (sqlite table "files"), the       *)
(*                         watchdog event handler RAGFileEventHandler     *)
(*   embedding_pipeline.py embedding, add_to_vector_db,                   *)
(*                         delete_from_vector_db (Chroma collection)      *)
(*   FileHandler.py        open_file (text extraction)                    *)
(* Every handler is one atomic action; the calls it makes are recorded in *)
(* the history variable ev, in call order.                                *)
(***************************************************************************)
EXTENDS Integers, Sequences, FiniteSets, TLC

\* ------------------------------------------------------------------ bounds
\* file contents are 0..MaxContent; content 0 is the zero-byte file
MaxContent == 3
\* the clock of the file system runs from 0 to MaxMtime and ticks at every
\* change of the directory; a write takes the tick as its modification time
MaxMtime == 2
\* the observer queues at most MaxEvents events
MaxEvents == 3

\* ------------------------------------------------------- program constants
\* FileHandler.py: max_size = 50 * 1024 * 1024
max_size == 50 * 1024 * 1024

\* size in bytes of a file with content b: content 0 is empty, a content
\* above 2 is a file over the 50MB limit
MiB == 1024 * 1024
FileSize(b) == b * 20 * MiB

Paths == {"a.txt", "b.odt"}
\* a third file of the watched directory, for the runs that need a path which
\* is neither the source nor the destination of a move
AllPaths == Paths \cup {"c.md"}
\* a subdirectory of the watched directory
Dirs == {"docs"}
Contents == 0..MaxContent
Mtimes == 1..MaxMtime

VARIABLES
    fs,        \* the watched directory: existing path -> [bytes, mtime]
    now,       \* the clock of the file system
    tables,    \* tables of ./database/index.db
    records,   \* rows of table files: filepath -> [last_modified, file_hash]
    index,     \* Chroma collection local_rag: id -> [document, embedding, source]
    watching,  \* the observer of start_watching is running
    ev,        \* the last handler run: what it was and the calls it made
    disp       \* the observer's event queue and the handler runs in flight

vars == <<fs, now, tables, records, index, watching, ev, disp>>
engine == <<fs, now, tables, records, index, watching, ev>>

\* ------------------------------------------------------------ pure helpers
\* function f with key k set to v (k is added when missing)
Put(f, k, v) == [q \in (DOMAIN f) \cup {k} |-> IF q = k THEN v ELSE f[q]]
\* function f without key k
Drop(f, k) == [q \in (DOMAIN f) \ {k} |-> f[q]]
EmptyMap == [q \in {} |-> 0]

\* hashlib.md5 over the bytes: a digest, injective on the modelled contents
compute_file_hash(b) == (b * 37 + 11) % 64

\* text a format handler extracts from the bytes b
HandlerText(b) == 100 + b
\* vector the embedding model returns for a text
EmbedVector(t) == 2 * t + 1

\* ------------------------------------------------ collaborators' outcomes
\* What the outside world does during one handler run:
\*   hashOk   the file can be opened and read by compute_file_hash
\*   readOk   the format handler of open_file reads and parses the file
\*   embedOk  the embedding backend answers
\*   addOk    collection.add returns (does not raise)
\*   delOk    collection.delete returns (does not raise)
\*   upsertOk   the sqlite statement of upsert_file_record commits
\*   delRecOk   the sqlite statement of delete_file_record commits
\* A handler run stops using its collaborators at the first one that fails,
\* so the outcomes are told apart by the first failure and by delOk.
AllOk == [hashOk |-> TRUE, readOk |-> TRUE, embedOk |-> TRUE, addOk |-> TRUE,
          delOk |-> TRUE, upsertOk |-> TRUE, delRecOk |-> TRUE]
ProcessInputs ==
    {AllOk, [AllOk EXCEPT !.hashOk = FALSE], [AllOk EXCEPT !.readOk = FALSE],
     [AllOk EXCEPT !.embedOk = FALSE], [AllOk EXCEPT !.addOk = FALSE]}
DeleteInputs == {AllOk, [AllOk EXCEPT !.delOk = FALSE]}
MoveInputs == ProcessInputs \cup {[i EXCEPT !.delOk = FALSE] : i \in ProcessInputs}

\* The inputs of the runs in which the record store is the collaborator that
\* may fail: the first sqlite statement that does not commit.
StoreProcessInputs == {AllOk, [AllOk EXCEPT !.upsertOk = FALSE]}
StoreDeleteInputs == {AllOk, [AllOk EXCEPT !.delRecOk = FALSE]}
StoreMoveInputs == StoreProcessInputs \cup StoreDeleteInputs

\* Python's None for a text / a vector, and the empty string
NoText == 0 - 1
EmptyText == 0
NoVector == 0 - 1

\* ------------------------------------------------------------ record store
\* an init_db that drops the table before it creates it
init_db_recreate(tbls, recs) == [tables |-> tbls \cup {"files"}, records |-> EmptyMap]

\* Handler.py init_db: CREATE TABLE IF NOT EXISTS files, on the database
\* file (its tables, the rows of files) that is on disk
init_db(tbls, recs) ==
    IF "files" \in tbls
    THEN [tables |-> tbls, records |-> recs]
    ELSE [tables |-> tbls \cup {"files"}, records |-> EmptyMap]

\* Handler.py get_file_record: the row of path as a set (empty = fetchone() None)
get_file_record(recs, path) == IF path \in DOMAIN recs THEN {recs[path]} ELSE {}

\* an upsert_file_record that is INSERT OR IGNORE: the row of a path that has
\* one is kept
upsert_file_record_ignore(recs, path, modified, hash) ==
    IF path \in DOMAIN recs THEN recs
    ELSE Put(recs, path, [last_modified |-> modified, file_hash |-> hash])

\* Handler.py upsert_file_record: INSERT ... ON CONFLICT(filepath) DO UPDATE
upsert_file_record(recs, path, modified, hash) ==
    Put(recs, path, [last_modified |-> modified, file_hash |-> hash])

\* a delete_file_record whose DELETE has no WHERE clause
delete_file_record_all(recs, path) == EmptyMap

\* a delete_file_record whose DELETE matches no row
delete_file_record_no_row(recs, path) == recs

\* Handler.py delete_file_record: DELETE FROM files WHERE filepath = ?
delete_file_record(recs, path) == Drop(recs, path)

\* --------------------------------------------------------- text extraction
\* FileHandler.py: the names its import statements bind at module level
FileHandlerGlobals ==
    {"json", "csv", "zipfile", "tarfile", "logging", "Path", "Optional", "Dict",
     "Callable", "chardet"}

\* Path(file_path).suffix.lower()
Suffix ==
    [p \in AllPaths |-> IF p = "a.txt" THEN ".txt" ELSE IF p = "b.odt" THEN ".odt" ELSE ".md"]

\* an exception leaving a format handler
Raises == 0 - 2

\* the text "[ODT FILE] <name>"
OdtPlaceholder == 50

\* FileProcessor._read_text_file: the decoded text; raises when the file
\* cannot be read
read_text_file(b, inp) == IF inp.readOk THEN HandlerText(b) ELSE Raises

\* FileProcessor._read_odt: the text of content.xml; when the zip or the xml
\* cannot be parsed the except branch evaluates
\* f"[ODT FILE] {os.path.basename(file_path)}", which needs the name os
read_odt(b, inp) ==
    IF inp.readOk THEN HandlerText(b)
    ELSE IF "os" \in FileHandlerGlobals THEN OdtPlaceholder
    ELSE Raises

\* FileHandler.py open_file, on the directory files as it is when open_file
\* reads it; its except branch turns an exception of the handler into None
open_file(files, path, inp) ==
    IF path \notin DOMAIN files THEN NoText
    ELSE IF FileSize(files[path].bytes) > max_size THEN NoText
    ELSE IF FileSize(files[path].bytes) = 0 THEN EmptyText
    ELSE LET text == IF Suffix[path] = ".odt"
                     THEN read_odt(files[path].bytes, inp)
                     ELSE read_text_file(files[path].bytes, inp)
         IN  IF text = Raises THEN NoText ELSE text

\* ------------------------------------------------------ embedding pipeline
\* embedding_pipeline.py embedding: the vector, or None when the call fails
embedding(text, inp) == IF inp.embedOk THEN EmbedVector(text) ELSE NoVector

\* Chroma collection.add of one id: an id the collection already holds is
\* not replaced (add is not upsert)
collection_add(idx, id, doc, vec) ==
    IF id \in DOMAIN idx THEN idx
    ELSE Put(idx, id, [document |-> doc, embedding |-> vec, source |-> id])

\* Chroma collection.delete(ids=[id])
collection_delete(idx, id) == Drop(idx, id)

\* an add_to_vector_db that returns early only for None (if text is None),
\* so that the empty string is embedded and added
add_to_vector_db_none_only(idx, files, filepath, inp) ==
    LET text == open_file(files, filepath, inp)
        embedded == embedding(text, inp)
    IN  IF text = NoText
        THEN [index |-> idx, calls |-> <<"open_file">>,
              result |-> "no_text", raised |-> FALSE]
        ELSE IF embedded = NoVector
        THEN [index |-> idx, calls |-> <<"open_file", "embedding">>,
              result |-> "no_vector", raised |-> FALSE]
        ELSE IF ~inp.addOk
        THEN [index |-> idx, calls |-> <<"open_file", "embedding", "collection.add">>,
              result |-> "add_raised", raised |-> TRUE]
        ELSE [index |-> collection_add(idx, filepath, text, embedded),
              calls |-> <<"open_file", "embedding", "collection.add">>,
              result |-> IF filepath \in DOMAIN idx THEN "add_kept_old" ELSE "added",
              raised |-> FALSE]

\* embedding_pipeline.py add_to_vector_db
\* result: the index, the calls made, the outcome, whether an exception left it
add_to_vector_db(idx, files, filepath, inp) ==
    LET text == open_file(files, filepath, inp)
        embedded == embedding(text, inp)
    IN  IF text = NoText \/ text = EmptyText
        THEN [index |-> idx, calls |-> <<"open_file">>,
              result |-> "no_text", raised |-> FALSE]
        ELSE IF embedded = NoVector
        THEN [index |-> idx, calls |-> <<"open_file", "embedding">>,
              result |-> "no_vector", raised |-> FALSE]
        ELSE IF ~inp.addOk
        THEN [index |-> idx, calls |-> <<"open_file", "embedding", "collection.add">>,
              result |-> "add_raised", raised |-> TRUE]
        ELSE [index |-> collection_add(idx, filepath, text, embedded),
              calls |-> <<"open_file", "embedding", "collection.add">>,
              result |-> IF filepath \in DOMAIN idx THEN "add_kept_old" ELSE "added",
              raised |-> FALSE]

\* a delete_from_vector_db that is still the TODO of on_deleted
delete_from_vector_db_todo(idx, filepath, inp) == idx

\* embedding_pipeline.py delete_from_vector_db: a failing delete is caught
delete_from_vector_db(idx, filepath, inp) ==
    IF inp.delOk THEN collection_delete(idx, filepath) ELSE idx

\* ------------------------------------------------------------- the engine
\* a comparison by modification time instead of by digest
content_changed_by_mtime(current_modified, current_hash, last_modified, last_hash) ==
    current_modified # last_modified

\* a comparison that unpacks the row in the wrong order and compares the
\* digest with the stored modification time
content_changed_swapped(current_modified, current_hash, last_modified, last_hash) ==
    current_hash # last_modified

\* the comparison of process that decides whether a tracked file is re-indexed
content_changed(current_modified, current_hash, last_modified, last_hash) ==
    current_hash # last_hash

\* a process that takes a file it cannot find or hash for a deleted one
skipped_as_deleted(recs, idx, path, calls, result) ==
    [records |-> delete_file_record(recs, path),
     index |-> collection_delete(idx, path),
     calls |-> calls \o <<"delete_file_record", "collection.delete">>,
     result |-> result, raised |-> FALSE]

\* the early returns of process: "Skipped missing file", "Could not hash file"
skipped(recs, idx, path, calls, result) ==
    [records |-> recs, index |-> idx, calls |-> calls,
     result |-> result, raised |-> FALSE]

\* Handler.py RAGFileEventHandler.process; seen is the directory as it is when
\* process stats and hashes the file, files as it is when open_file reads it
process(recs, idx, seen, files, path, inp) ==
    IF path \notin DOMAIN seen
    THEN skipped(recs, idx, path, <<>>, "missing")
    ELSE IF ~inp.hashOk
    THEN skipped(recs, idx, path, <<"compute_file_hash">>, "no_hash")
    ELSE
      LET current_modified == seen[path].mtime
          current_hash == compute_file_hash(seen[path].bytes)
          record == get_file_record(recs, path)
          written == upsert_file_record(recs, path, current_modified, current_hash)
          added == add_to_vector_db(idx, files, path, inp)
          head == <<"compute_file_hash", "get_file_record">>
      IN  IF record = {}
             \/ \E r \in record :
                  content_changed(current_modified, current_hash,
                                  r.last_modified, r.file_hash)
          THEN IF ~inp.upsertOk
               THEN [records |-> recs, index |-> idx,
                     calls |-> head \o <<"upsert_file_record">>,
                     result |-> "upsert_raised", raised |-> TRUE]
               ELSE [records |-> written, index |-> added.index,
                     calls |-> head \o <<"upsert_file_record">> \o added.calls,
                     result |-> added.result, raised |-> added.raised]
          ELSE [records |-> recs, index |-> idx, calls |-> head,
                result |-> "unchanged", raised |-> FALSE]

\* ---------------------------------------------------------------- history
\* An exception that leaves a handler leaves the observer thread with it: the
\* thread ends and no later event is dispatched until the program is started
\* again.
\* ev describes the last handler run:
\*   kind, path, dest, dir   the event (dest only for moved)
\*   del      what collection.delete did: "ok", "failed", or "none" (not called)
\*   calls    the calls made, in order
\*   result   how the run ended
\*   raised   an exception left the handler
\*   before, beforeDest   what was stored for path / dest when the run began
\*   again    "indexed" when the run just before was for the same event and
\*            ended with a collection.add that returned; "restart" when the
\*            run is the first after the program was started again
NoEvent == [kind |-> "none", path |-> "", dest |-> "", dir |-> FALSE,
            del |-> "none", calls |-> <<>>, result |-> "none",
            raised |-> FALSE, before |-> "none", beforeDest |-> "none",
            again |-> "none"]

Tracking(p) ==
    IF p \in DOMAIN records
    THEN IF p \in DOMAIN index THEN "paired" ELSE "record_only"
    ELSE IF p \in DOMAIN index THEN "entry_only" ELSE "untracked"

Again(kind, path, dest) ==
    IF /\ ev.kind = kind /\ ev.path = path /\ ev.dest = dest /\ ~ev.dir
       /\ ev.result \in {"added", "add_kept_old"}
    THEN "indexed"
    ELSE IF ev.kind = "restart" THEN "restart" ELSE "none"

\* the history entry of a handler run that ended with the outcome r of process
Ran(kind, path, dest, del, r) ==
    [kind |-> kind, path |-> path, dest |-> dest, dir |-> FALSE,
     del |-> del, calls |-> r.calls,
     result |-> r.result, raised |-> r.raised,
     before |-> Tracking(path),
     beforeDest |-> IF dest = "" THEN "none" ELSE Tracking(dest),
     again |-> Again(kind, path, dest)]

\* a directory event: every handler returns at "if not event.is_directory"
Ignored(kind, path, dest) ==
    [NoEvent EXCEPT !.kind = kind, !.path = path, !.dest = dest, !.dir = TRUE,
                    !.result = "directory"]

\* ---------------------------------------------------------------- Init
\* disp, the observer thread at the grain of its steps:
\*   mode      the thread that called start_watching: "main" (Handler.py run
\*             as a program) or "background" (chat_interface.py)
\*   alive     the observer thread is running
\*   emitted   events queued so far; an event's id is its place in delivery
\*   queue     events delivered and not yet dispatched
\*   running   handler runs in flight: [id, path, step], step the next write
\*   log       the record and index writes made, in the order they were made
NoDispatch == [mode |-> "none", alive |-> FALSE, emitted |-> 0, queue |-> <<>>,
               running |-> {}, log |-> <<>>]

Init ==
    /\ fs = EmptyMap
    /\ now = 0
    /\ tables = {}
    /\ records = EmptyMap
    /\ index = EmptyMap
    /\ watching = FALSE
    /\ ev = NoEvent
    /\ disp = NoDispatch

\* ------------------------------------------------- the watched directory
\* some program writes path: new bytes, a new modification time, or both
WriteFile(path, b) ==
    /\ now < MaxMtime
    /\ now' = now + 1
    /\ fs' = Put(fs, path, [bytes |-> b, mtime |-> now'])
    /\ ev' = NoEvent
    /\ UNCHANGED <<tables, records, index, watching>>
    /\ UNCHANGED disp

RemoveFile(path) ==
    /\ now < MaxMtime
    /\ now' = now + 1
    /\ path \in DOMAIN fs
    /\ fs' = Drop(fs, path)
    /\ ev' = NoEvent
    /\ UNCHANGED <<tables, records, index, watching>>
    /\ UNCHANGED disp

RenameFile(src, dest) ==
    /\ src \in DOMAIN fs
    /\ src # dest
    /\ now < MaxMtime
    /\ now' = now + 1
    /\ fs' = Put(Drop(fs, src), dest, fs[src])
    /\ ev' = NoEvent
    /\ UNCHANGED <<tables, records, index, watching>>
    /\ UNCHANGED disp

\* ------------------------------------------------------ process lifetime
\* Handler.py start_watching: init_db, then the observer runs
start_watching ==
    /\ ~watching
    /\ tables' = init_db(tables, records).tables
    /\ records' = init_db(tables, records).records
    /\ watching' = TRUE
    /\ UNCHANGED <<fs, now, index, ev>>
    /\ UNCHANGED disp

\* the running program is stopped (KeyboardInterrupt: observer.stop, join)
\* and started again: start_watching runs init_db on the database on disk
restart ==
    /\ watching
    /\ tables' = init_db(tables, records).tables
    /\ records' = init_db(tables, records).records
    /\ ev' = [NoEvent EXCEPT !.kind = "restart"]
    /\ UNCHANGED <<fs, now, index, watching>>
    /\ UNCHANGED disp

\* the process is killed inside process(path), after upsert_file_record has
\* committed and before collection.add, and is started again: start_watching
\* runs init_db on the database the killed process left
crash_in_process(path) ==
    /\ watching
    /\ path \in DOMAIN fs
    /\ LET r == process(records, index, fs, fs, path, AllOk)
       IN  /\ Len(r.calls) >= 3
           /\ r.calls[3] = "upsert_file_record"
           /\ records' = init_db(tables, r.records).records
           /\ ev' = [NoEvent EXCEPT !.kind = "crash", !.path = path,
                                    !.calls = SubSeq(r.calls, 1, 3),
                                    !.result = "killed",
                                    !.before = Tracking(path)]
    /\ tables' = init_db(tables, records).tables
    /\ UNCHANGED <<fs, now, index, watching>>
    /\ UNCHANGED disp

\* --------------------------------------------------------- event handlers
\* Handler.py RAGFileEventHandler.on_created
on_created(path, dir, inp) ==
    /\ watching
    /\ IF dir
       THEN /\ ev' = Ignored("created", path, "")
            /\ UNCHANGED <<records, index>>
       ELSE LET r == process(records, index, fs, fs, path, inp)
            IN  /\ records' = r.records
                /\ index' = r.index
                /\ ev' = Ran("created", path, "", "none", r)
    /\ watching' = ~ev'.raised
    /\ UNCHANGED <<fs, now, tables>>
    /\ UNCHANGED disp

\* Handler.py RAGFileEventHandler.on_modified
on_modified(path, dir, inp) ==
    /\ watching
    /\ IF dir
       THEN /\ ev' = Ignored("modified", path, "")
            /\ UNCHANGED <<records, index>>
       ELSE LET r == process(records, index, fs, fs, path, inp)
            IN  /\ records' = r.records
                /\ index' = r.index
                /\ ev' = Ran("modified", path, "", "none", r)
    /\ watching' = ~ev'.raised
    /\ UNCHANGED <<fs, now, tables>>
    /\ UNCHANGED disp

\* on_modified while another process rewrites the file: process has hashed
\* the bytes it found, the file is rewritten to b, then open_file reads it
on_modified_during_write(path, b) ==
    /\ watching
    /\ now < MaxMtime
    /\ path \in DOMAIN fs
    /\ b # fs[path].bytes
    /\ now' = now + 1
    /\ fs' = Put(fs, path, [bytes |-> b, mtime |-> now'])
    /\ LET r == process(records, index, fs, fs', path, AllOk)
       IN  /\ records' = r.records
           /\ index' = r.index
           /\ ev' = Ran("modified", path, "", "none", r)
    /\ watching' = ~ev'.raised
    /\ UNCHANGED tables
    /\ UNCHANGED disp

\* an on_deleted without the is_directory check
on_deleted_unfiltered(path, dir, inp) ==
    /\ watching
    /\ records' = delete_file_record(records, path)
    /\ index' = delete_from_vector_db(index, path, inp)
    /\ ev' = [Ran("deleted", path, "", IF inp.delOk THEN "ok" ELSE "failed",
                  [calls |-> <<"delete_file_record", "collection.delete">>,
                   result |-> "deleted", raised |-> FALSE]) EXCEPT !.dir = dir]
    /\ watching' = ~ev'.raised
    /\ UNCHANGED <<fs, now, tables>>
    /\ UNCHANGED disp

\* an on_deleted that removes the index entry before the record row
on_deleted_index_first(path, dir, inp) ==
    /\ watching
    /\ IF dir
       THEN /\ ev' = Ignored("deleted", path, "")
            /\ UNCHANGED <<records, index>>
       ELSE IF ~inp.delRecOk
       THEN /\ index' = delete_from_vector_db(index, path, inp)
            /\ ev' = Ran("deleted", path, "", IF inp.delOk THEN "ok" ELSE "failed",
                         [calls |-> <<"collection.delete", "delete_file_record">>,
                          result |-> "delete_raised", raised |-> TRUE])
            /\ UNCHANGED records
       ELSE /\ records' = delete_file_record(records, path)
            /\ index' = delete_from_vector_db(index, path, inp)
            /\ ev' = Ran("deleted", path, "",
                         IF inp.delOk THEN "ok" ELSE "failed",
                         [calls |-> <<"collection.delete", "delete_file_record">>,
                          result |-> "deleted", raised |-> FALSE])
    /\ watching' = ~ev'.raised
    /\ UNCHANGED <<fs, now, tables>>
    /\ UNCHANGED disp

\* Handler.py RAGFileEventHandler.on_deleted
on_deleted(path, dir, inp) ==
    /\ watching
    /\ IF dir
       THEN /\ ev' = Ignored("deleted", path, "")
            /\ UNCHANGED <<records, index>>
       ELSE IF ~inp.delRecOk
       THEN /\ ev' = Ran("deleted", path, "", "none",
                         [calls |-> <<"delete_file_record">>,
                          result |-> "delete_raised", raised |-> TRUE])
            /\ UNCHANGED <<records, index>>
       ELSE /\ records' = delete_file_record(records, path)
            /\ index' = delete_from_vector_db(index, path, inp)
            /\ ev' = Ran("deleted", path, "",
                         IF inp.delOk THEN "ok" ELSE "failed",
                         [calls |-> <<"delete_file_record", "collection.delete">>,
                          result |-> "deleted", raised |-> FALSE])
    /\ watching' = ~ev'.raised
    /\ UNCHANGED <<fs, now, tables>>
    /\ UNCHANGED disp

\* Handler.py RAGFileEventHandler.on_moved
on_moved(src, dest, dir, inp) ==
    /\ watching
    /\ src # dest
    /\ IF dir
       THEN /\ ev' = Ignored("moved", src, dest)
            /\ UNCHANGED <<records, index>>
       ELSE IF ~inp.delRecOk
       THEN /\ ev' = Ran("moved", src, dest, "none",
                         [calls |-> <<"delete_file_record">>,
                          result |-> "delete_raised", raised |-> TRUE])
            /\ UNCHANGED <<records, index>>
       ELSE LET r == process(delete_file_record(records, src),
                             delete_from_vector_db(index, src, inp), fs, fs, dest, inp)
                moved == [r EXCEPT !.calls =
                            <<"delete_file_record", "collection.delete">> \o r.calls]
            IN  /\ records' = r.records
                /\ index' = r.index
                /\ ev' = Ran("moved", src, dest,
                             IF inp.delOk THEN "ok" ELSE "failed", moved)
    /\ watching' = ~ev'.raised
    /\ UNCHANGED <<fs, now, tables>>
    /\ UNCHANGED disp

\* ---------------------------------------------------------------- Next
\* ------------------------------------------------- the observer thread
\* Handler.py __main__: start_watching called in the main thread; it creates
\* one Observer, schedules one RAGFileEventHandler and starts it
start_in_main_thread ==
    /\ disp.mode = "none"
    /\ disp' = [disp EXCEPT !.mode = "main", !.alive = TRUE]
    /\ UNCHANGED engine

\* chat_interface.py start_watchdog_thread: start_watching called in a daemon
\* thread, the main thread goes on to the chat loop, which only queries
start_watchdog_thread ==
    /\ disp.mode = "none"
    /\ disp' = [disp EXCEPT !.mode = "background", !.alive = TRUE]
    /\ UNCHANGED engine

\* the observer queues a file event for path
emit(path) ==
    /\ disp.mode # "none"
    /\ disp.emitted < MaxEvents
    /\ disp' = [disp EXCEPT !.emitted = @ + 1,
                            !.queue = Append(@, [id |-> disp.emitted + 1, path |-> path])]
    /\ UNCHANGED engine

\* an observer that gives every event a thread of its own
observer_thread_per_event(running) == TRUE

\* the one thread of the one Observer of start_watching calls the handler and
\* takes the next event when the handler has returned
observer_thread_free(running) == running = {}

\* the observer thread takes the first event of the queue and calls its
\* handler (on_created .. on_moved run in the calling thread)
dispatch ==
    /\ disp.alive
    /\ disp.queue # <<>>
    /\ observer_thread_free(disp.running)
    /\ disp' = [disp EXCEPT !.queue = Tail(@),
                            !.running = @ \cup {[id |-> Head(disp.queue).id,
                                                path |-> Head(disp.queue).path,
                                                step |-> "record"]}]
    /\ UNCHANGED engine

\* the handler run h makes its record write (upsert_file_record or
\* delete_file_record)
write_record(h) ==
    /\ h \in disp.running
    /\ h.step = "record"
    /\ disp' = [disp EXCEPT !.running = (@ \ {h}) \cup {[h EXCEPT !.step = "index"]},
                            !.log = Append(@, [id |-> h.id, path |-> h.path,
                                               op |-> "record"])]
    /\ UNCHANGED engine

\* the handler run h makes its index write (collection.add or
\* collection.delete) and returns
write_index(h) ==
    /\ h \in disp.running
    /\ h.step = "index"
    /\ disp' = [disp EXCEPT !.running = @ \ {h},
                            !.log = Append(@, [id |-> h.id, path |-> h.path,
                                               op |-> "index"])]
    /\ UNCHANGED engine

\* the handler run h returns or raises without its remaining writes; an
\* exception ends the observer thread
abandon(h, raised) ==
    /\ h \in disp.running
    /\ disp' = [disp EXCEPT !.running = @ \ {h}, !.alive = @ /\ ~raised]
    /\ UNCHANGED engine

Handlers == [id : 1..MaxEvents, path : Paths, step : {"record", "index"}]

NextDispatch ==
    \/ start_in_main_thread
    \/ start_watchdog_thread
    \/ \E p \in Paths : emit(p)
    \/ dispatch
    \/ \E h \in Handlers : write_record(h)
    \/ \E h \in Handlers : write_index(h)
    \/ \E h \in Handlers, raised \in BOOLEAN : abandon(h, raised)

SpecDispatch == Init /\ [][NextDispatch]_vars

Next ==
    \/ \E path \in Paths, b \in Contents : WriteFile(path, b)
    \/ \E path \in Paths : RemoveFile(path)
    \/ \E src \in Paths, dest \in Paths : RenameFile(src, dest)
    \/ start_watching
    \/ \E path \in Paths : crash_in_process(path)
    \/ \E path \in Paths, inp \in ProcessInputs : on_created(path, FALSE, inp)
    \/ \E path \in Paths, inp \in ProcessInputs : on_modified(path, FALSE, inp)
    \/ \E path \in Paths, inp \in DeleteInputs : on_deleted(path, FALSE, inp)
    \/ \E src \in Paths, dest \in Paths, inp \in MoveInputs :
          on_moved(src, dest, FALSE, inp)
    \/ \E d \in Dirs :
          \/ on_created(d, TRUE, AllOk)
          \/ on_modified(d, TRUE, AllOk)
          \/ on_deleted(d, TRUE, AllOk)
          \/ on_moved(d, "old", TRUE, AllOk)

Spec == Init /\ [][Next]_vars

\* The same program with the record store as the failing collaborator.
NextStore ==
    \/ \E p \in Paths, b \in Contents : WriteFile(p, b)
    \/ \E p \in Paths : RemoveFile(p)
    \/ \E p \in Paths, q \in Paths : RenameFile(p, q)
    \/ start_watching
    \/ \E p \in Paths, i \in StoreProcessInputs : on_created(p, FALSE, i)
    \/ \E p \in Paths, i \in StoreProcessInputs : on_modified(p, FALSE, i)
    \/ \E p \in Paths, i \in StoreDeleteInputs : on_deleted(p, FALSE, i)
    \/ \E p \in Paths, q \in Paths, i \in StoreMoveInputs : on_moved(p, q, FALSE, i)

SpecStore == Init /\ [][NextStore]_vars

\* The same program with every collaborator answering and a writer that may
\* rewrite a file while its Modified event is processed.
NextRace ==
    \/ \E p \in Paths, b \in Contents : WriteFile(p, b)
    \/ \E p \in Paths : RemoveFile(p)
    \/ \E p \in Paths, q \in Paths : RenameFile(p, q)
    \/ start_watching
    \/ \E p \in Paths : on_created(p, FALSE, AllOk)
    \/ \E p \in Paths : on_modified(p, FALSE, AllOk)
    \/ \E p \in Paths : on_deleted(p, FALSE, AllOk)
    \/ \E p \in Paths, q \in Paths : on_moved(p, q, FALSE, AllOk)
    \/ \E p \in Paths, b \in Contents : on_modified_during_write(p, b)

SpecRace == Init /\ [][NextRace]_vars

\* The same program with every collaborator answering, stopped and started
\* again at any time.
NextRestart ==
    \/ \E p \in Paths, b \in Contents : WriteFile(p, b)
    \/ \E p \in Paths : RemoveFile(p)
    \/ \E p \in Paths, q \in Paths : RenameFile(p, q)
    \/ start_watching
    \/ restart
    \/ \E p \in Paths : on_created(p, FALSE, AllOk)
    \/ \E p \in Paths : on_modified(p, FALSE, AllOk)
    \/ \E p \in Paths : on_deleted(p, FALSE, AllOk)
    \/ \E p \in Paths, q \in Paths : on_moved(p, q, FALSE, AllOk)

SpecRestart == Init /\ [][NextRestart]_vars

\* The same program with every collaborator answering, on three files.
NextIsolation ==
    \/ \E p \in AllPaths, b \in Contents : WriteFile(p, b)
    \/ \E p \in AllPaths : RemoveFile(p)
    \/ \E p \in AllPaths, q \in AllPaths : RenameFile(p, q)
    \/ start_watching
    \/ \E p \in AllPaths : on_created(p, FALSE, AllOk)
    \/ \E p \in AllPaths : on_modified(p, FALSE, AllOk)
    \/ \E p \in AllPaths : on_deleted(p, FALSE, AllOk)
    \/ \E p \in AllPaths, q \in AllPaths : on_moved(p, q, FALSE, AllOk)

SpecIsolation == Init /\ [][NextIsolation]_vars

TypeOK ==
    /\ DOMAIN fs \subseteq Paths
    /\ \A p \in DOMAIN fs : fs[p] \in [bytes : Contents, mtime : Mtimes]
    /\ now \in 0..MaxMtime
    /\ tables \subseteq {"files"}
    /\ DOMAIN records \subseteq Paths
    /\ \A p \in DOMAIN records :
          /\ records[p].last_modified \in Mtimes
          /\ \E b \in Contents : records[p].file_hash = compute_file_hash(b)
    /\ DOMAIN index \subseteq Paths
    /\ \A p \in DOMAIN index : index[p].source = p
    /\ watching \in BOOLEAN

\* ================================================================= claims
EventKinds == {"created", "modified", "deleted", "moved"}
UpdateKinds == {"created", "modified"}
Has(calls, c) == \E i \in 1..Len(calls) : calls[i] = c
Count(calls, c) == Cardinality({i \in 1..Len(calls) : calls[i] = c})
\* open_file has text to return for path when its format handler answers
Extractable(p) ==
    /\ p \in DOMAIN fs
    /\ FileSize(fs[p].bytes) > 0
    /\ FileSize(fs[p].bytes) <= max_size
\* results of a run in which a collaborator that was asked did not answer
Failures == {"no_hash", "no_text", "no_vector", "add_raised"}
Indexed == {"added", "add_kept_old"}

\* C1: after every file event the engine has processed, a record exists for a
\* path exactly when the index holds an entry for that path.
C1_RecordIffIndexEntry ==
    (ev.kind \in EventKinds /\ ~ev.dir) =>
        \A p \in Paths : (p \in DOMAIN records) <=> (p \in DOMAIN index)

\* C2: in every run of process, upsert_file_record is called only after a
\* collection.add for the same path has returned.
C2_RecordWrittenAfterIndexWrite ==
    (ev.kind \in {"created", "modified", "moved"} /\ ~ev.dir) =>
        \A i \in 1..Len(ev.calls) :
            ev.calls[i] = "upsert_file_record" =>
                /\ ev.result \in Indexed
                /\ \E j \in 1..(i - 1) : ev.calls[j] = "collection.add"

\* C3: a Created/Modified run for a file with bytes in which open_file gives
\* no text (too large, unreadable) or the embedding fails leaves the record of
\* its path as it was.
C3_FailedUpdateKeepsRecord ==
    [][(/\ ev'.kind \in UpdateKinds /\ ~ev'.dir
        /\ ev'.path \in DOMAIN fs
        /\ FileSize(fs[ev'.path].bytes) > 0
        /\ ev'.result \in {"no_text", "no_vector"})
       => get_file_record(records', ev'.path) = get_file_record(records, ev'.path)]_vars

\* C4: when an update of a path was aborted by a failed extraction or
\* embedding, the next Created/Modified event for the same unchanged file,
\* with the collaborators answering, extracts and embeds again and leaves the
\* path with an index entry.
C4_RetryAfterFailure ==
    [][(/\ ev.kind \in UpdateKinds /\ ~ev.dir
        /\ ev.result \in {"no_text", "no_vector"}
        /\ Extractable(ev.path)
        /\ ev'.kind \in UpdateKinds /\ ~ev'.dir
        /\ ev'.path = ev.path
        /\ ev'.result \notin Failures)
       => /\ Has(ev'.calls, "open_file")
          /\ Has(ev'.calls, "embedding")
          /\ ev'.path \in DOMAIN index']_vars

\* C5: a Created/Modified run for a tracked path whose digest differs from the
\* stored one, with extraction, embedding and the index write succeeding,
\* leaves the record with the new digest and the index entry with the text
\* and vector of the current bytes.
C5_ChangedContentReindexed ==
    [][(/\ ev'.kind \in UpdateKinds /\ ~ev'.dir
        /\ ev'.path \in DOMAIN records
        /\ ev'.path \in DOMAIN fs
        /\ compute_file_hash(fs[ev'.path].bytes) # records[ev'.path].file_hash
        /\ ev'.result \in Indexed)
       => /\ ev'.path \in DOMAIN records'
          /\ records'[ev'.path].file_hash = compute_file_hash(fs[ev'.path].bytes)
          /\ ev'.path \in DOMAIN index'
          /\ index'[ev'.path].document = HandlerText(fs[ev'.path].bytes)
          /\ index'[ev'.path].embedding = EmbedVector(HandlerText(fs[ev'.path].bytes))]_vars

\* C6: when the Modified event of a path is processed twice in a row, the file
\* untouched in between and the collaborators answering, the second run makes
\* no extraction, embedding, index write or record write, and the two runs
\* together make exactly one collection.add (the one of the first run, which
\* found new or changed content).
C6_ModifiedTwiceOneIndexWrite ==
    [][(/\ ev.kind = "modified" /\ ~ev.dir
        /\ ev.result \in Indexed
        /\ ev'.kind = "modified" /\ ~ev'.dir
        /\ ev'.path = ev.path)
       => /\ ~Has(ev'.calls, "open_file")
          /\ ~Has(ev'.calls, "embedding")
          /\ ~Has(ev'.calls, "collection.add")
          /\ ~Has(ev'.calls, "upsert_file_record")
          /\ records' = records
          /\ index' = index
          /\ Count(ev.calls, "collection.add") + Count(ev'.calls, "collection.add") = 1]_vars

C6_Witness ==
    /\ ev.kind = "modified" /\ ~ev.dir
    /\ ev.again = "indexed"
    /\ ev.result = "unchanged"
    /\ ev.path \in DOMAIN index

\* C7: a Created/Modified run for a tracked path whose bytes have the stored
\* digest but whose modification time differs from the stored one makes no
\* embedding call and no index write.
C7_ContentOverTimestamp ==
    [][(/\ ev'.kind \in UpdateKinds /\ ~ev'.dir
        /\ ev'.path \in DOMAIN records
        /\ ev'.path \in DOMAIN fs
        /\ records[ev'.path].file_hash = compute_file_hash(fs[ev'.path].bytes)
        /\ records[ev'.path].last_modified # fs[ev'.path].mtime)
       => /\ ~Has(ev'.calls, "embedding")
          /\ ~Has(ev'.calls, "collection.add")
          /\ index' = index]_vars

C7_Witness ==
    /\ ev.kind \in UpdateKinds /\ ~ev.dir
    /\ ev.result = "unchanged"
    /\ ev.before = "paired"
    /\ ev.path \in DOMAIN fs
    /\ records[ev.path].file_hash = compute_file_hash(fs[ev.path].bytes)
    /\ records[ev.path].last_modified # fs[ev.path].mtime

\* C8: a Moved run from A to B, B on disk with text to extract, B without a
\* record, the collaborators answering, leaves A without record and without
\* index entry, B with a record holding the digest of its bytes and with an
\* index entry, and makes exactly one embedding call.
C8_RenameMovesKey ==
    [][(/\ ev'.kind = "moved" /\ ~ev'.dir
        /\ ev'.del = "ok"
        /\ Extractable(ev'.dest)
        /\ ev'.dest \notin DOMAIN records
        /\ ev'.result \notin Failures)
       => /\ ev'.path \notin DOMAIN records'
          /\ ev'.path \notin DOMAIN index'
          /\ ev'.dest \in DOMAIN records'
          /\ records'[ev'.dest].file_hash = compute_file_hash(fs[ev'.dest].bytes)
          /\ ev'.dest \in DOMAIN index'
          /\ Count(ev'.calls, "embedding") = 1]_vars

C8_Witness ==
    /\ ev.kind = "moved" /\ ~ev.dir
    /\ ev.del = "ok"
    /\ ev.before = "paired"
    /\ ev.beforeDest = "untracked"
    /\ ev.result = "added"
    /\ ev.path \notin DOMAIN fs
    /\ ev.dest \in DOMAIN fs

C10_CrashReplayKeepsEntry ==
    [][(/\ ev.kind = "crash"
        /\ Extractable(ev.path)
        /\ ev'.kind = "modified" /\ ~ev'.dir
        /\ ev'.path = ev.path
        /\ ev'.result \notin Failures)
       => /\ Count(ev'.calls, "embedding") <= 1
          /\ ev'.path \in DOMAIN index']_vars

\* The path a file event is about for the update policy: the destination of a
\* Moved event, the path of a Created or Modified event.
Target(e) == IF e.kind = "moved" THEN e.dest ELSE e.path

Entry(idx, p) == IF p \in DOMAIN idx THEN {idx[p]} ELSE {}

\* C11: when the file of a Created or Modified event, or the destination of a
\* Moved event, no longer exists or cannot be hashed, the run writes no record
\* and no index entry, raises nothing, extracts nothing, and leaves the record
\* and the index entry of that path as they were.
C11_VanishedFileSkipped ==
    [][(ev'.kind \in {"created", "modified", "moved"} /\ ~ev'.dir
          /\ ev'.result \in {"missing", "no_hash"})
       => /\ ~ev'.raised
          /\ watching'
          /\ ~Has(ev'.calls, "upsert_file_record")
          /\ ~Has(ev'.calls, "open_file")
          /\ ~Has(ev'.calls, "collection.add")
          /\ get_file_record(records', Target(ev')) = get_file_record(records, Target(ev'))
          /\ Entry(index', Target(ev')) = Entry(index, Target(ev'))
          /\ (ev'.kind \in UpdateKinds => records' = records /\ index' = index)]_vars

\* a Modified event for a path that is recorded and indexed and gone from disk
C11_Witness ==
    /\ ev.kind = "modified"
    /\ ev.result = "missing"
    /\ ev.before = "paired"
    /\ ev.path \notin DOMAIN fs
    /\ ev.path \in DOMAIN records
    /\ ev.path \in DOMAIN index

\* The ways a run can fail: the hash, the extraction, the embedding, the index
\* add or delete, the record store.
RunFailed(e) ==
    \/ e.result \in {"no_hash", "no_text", "no_vector", "add_raised",
                     "upsert_raised", "delete_raised"}
    \/ e.del = "failed"

\* C12: a failure while the event of one path is processed never stops event
\* delivery: after the failed run the observer still dispatches events.
C12_FailureKeepsDelivery ==
    [][(watching /\ ev'.kind \in EventKinds /\ ~ev'.dir /\ RunFailed(ev')) => watching']_vars

StoreFailures == {"upsert_raised", "delete_raised"}

\* The path whose record write failed: the path of the event when the delete
\* failed, the path given to process when the upsert failed.
FailedWritePath(e) == IF e.result = "delete_raised" THEN e.path ELSE Target(e)

\* C14 as stated: when the record write of an event fails, the index is left
\* exactly as it was before the event.
C14_FailedRecordWriteKeepsIndex ==
    [][(ev'.kind \in EventKinds /\ ev'.result \in StoreFailures) => index' = index]_vars

\* C14 as the program has it: when the record write for a path fails, the run
\* makes no index call after the failed write and the index entry of that path
\* is as it was before the event; the whole index is as it was unless the
\* event is a Moved whose source was already deleted when the upsert of the
\* destination failed.
C14_FailedRecordWriteKeepsEntry ==
    [][(ev'.kind \in EventKinds /\ ev'.result \in StoreFailures)
       => /\ Entry(index', FailedWritePath(ev')) = Entry(index, FailedWritePath(ev'))
          /\ ~Has(ev'.calls, "collection.add")
          /\ ev'.calls[Len(ev'.calls)] \in {"upsert_file_record", "delete_file_record"}
          /\ (ev'.kind # "moved" \/ ev'.result = "delete_raised" => index' = index)
          /\ records' = IF ev'.kind = "moved" /\ ev'.result = "upsert_raised"
                         THEN delete_file_record(records, ev'.path)
                         ELSE records]_vars

\* the upsert for a changed file failed while the path had its old index entry
C14_Witness ==
    /\ ev.kind = "modified"
    /\ ev.result = "upsert_raised"
    /\ ev.before = "paired"
    /\ ev.path \in DOMAIN index
    /\ ev.path \in DOMAIN records

\* The second of two consecutive runs of one event with the collaborators
\* answering as in the first: the same event, no step in between that touched
\* the directory, the hash readable in both runs or in neither, the index
\* delete answering the same.
SameEventAgain ==
    /\ ev.kind \in EventKinds
    /\ ~ev.dir
    /\ ev'.kind = ev.kind
    /\ ev'.path = ev.path
    /\ ev'.dest = ev.dest
    /\ ~ev'.dir
    /\ ev'.del = ev.del
    /\ (ev'.result = "no_hash") = (ev.result = "no_hash")

\* C13: processing the same Created, Modified, Deleted or Moved event a second
\* time, with no change to the files in between, leaves the record store and
\* the index as the first run left them.
C13_SecondRunChangesNothing ==
    [][SameEventAgain => records' = records /\ index' = index]_vars

\* a Moved event processed a second time after the first run indexed the
\* destination
C13_Witness ==
    /\ ev.kind = "moved"
    /\ ev.again = "indexed"
    /\ ev.result = "unchanged"
    /\ ev.dest \in DOMAIN index
    /\ ev.path \notin DOMAIN records

\* C15: an extractor that cannot parse the content of a file returns
\* placeholder text, not a failure: after a Created or Modified run that read
\* a non-empty .odt file of allowed size, with embedding and index answering,
\* the run did not end without text and the path has an index entry.
C15_UnparsedContentGetsPlaceholder ==
    [][(ev'.kind \in UpdateKinds /\ ~ev'.dir
          /\ Has(ev'.calls, "open_file")
          /\ Extractable(ev'.path)
          /\ Suffix[ev'.path] = ".odt"
          /\ ev'.result \notin {"no_vector", "add_raised"})
       => ev'.result # "no_text" /\ ev'.path \in DOMAIN index']_vars

\* C16: for every path with a record and an index entry, the hash of the
\* record is the digest of the bytes the index entry was extracted from.
C16_StoredHashMatchesIndexedContent ==
    \A p \in DOMAIN records \cap DOMAIN index :
        \E b \in Contents :
            /\ records[p].file_hash = compute_file_hash(b)
            /\ index[p].document = HandlerText(b)
            /\ index[p].embedding = EmbedVector(HandlerText(b))

Hashes == {compute_file_hash(b) : b \in Contents}

\* C18: on the record store of every reachable state: get of a path without
\* record is absent; upsert(P, m, h) leaves exactly the record (m, h) for P
\* and done twice equals done once; delete(P) leaves no record for P, changes
\* nothing when P has none, and done twice equals done once; neither changes
\* the record of another path.
C18_RecordStoreOperations ==
    \A p \in Paths, m \in Mtimes, h \in Hashes :
        LET upserted == upsert_file_record(records, p, m, h)
            deleted == delete_file_record(records, p)
        IN  /\ (p \notin DOMAIN records => get_file_record(records, p) = {})
            /\ get_file_record(upserted, p) = {[last_modified |-> m, file_hash |-> h]}
            /\ upsert_file_record(upserted, p, m, h) = upserted
            /\ get_file_record(deleted, p) = {}
            /\ (p \notin DOMAIN records => deleted = records)
            /\ delete_file_record(deleted, p) = deleted
            /\ \A q \in Paths \ {p} :
                  /\ get_file_record(upserted, q) = get_file_record(records, q)
                  /\ get_file_record(deleted, q) = get_file_record(records, q)

\* a Modified run has replaced the record of one path while the other path
\* has none
C18_Witness ==
    /\ ev.kind = "modified"
    /\ Has(ev.calls, "upsert_file_record")
    /\ ev.result = "add_kept_old"
    /\ ev.before = "paired"
    /\ Cardinality(DOMAIN records) = 1

\* C19: starting the program again changes no record, and the first Created
\* or Modified run after it, for a file whose bytes have the digest of its
\* record, extracts nothing, embeds nothing and writes neither store.
C19_RestartKeepsRecords ==
    [][/\ (ev'.kind = "restart" => records' = records)
       /\ (/\ ev.kind = "restart"
           /\ ev'.kind \in UpdateKinds
           /\ ~ev'.dir
           /\ ev'.path \in DOMAIN fs
           /\ ev'.path \in DOMAIN records
           /\ records[ev'.path].file_hash = compute_file_hash(fs[ev'.path].bytes)
           => /\ ev'.result = "unchanged"
              /\ ~Has(ev'.calls, "open_file")
              /\ ~Has(ev'.calls, "embedding")
              /\ ~Has(ev'.calls, "collection.add")
              /\ records' = records
              /\ index' = index)]_vars

\* the first run after a restart is a Created event for a recorded, indexed
\* file
C19_Witness ==
    /\ ev.kind = "created"
    /\ ev.again = "restart"
    /\ ev.result = "unchanged"
    /\ ev.before = "paired"

\* C20: a Created, Modified, Deleted or Moved event for a directory makes no
\* call on the record store, the hash, the extractor, the embedding or the
\* index, and leaves records and index as they were.
C20_DirectoryEventsFiltered ==
    [][ev'.dir => /\ ev'.calls = <<>>
                  /\ ev'.result = "directory"
                  /\ ~ev'.raised
                  /\ records' = records
                  /\ index' = index]_vars

\* a directory event of each kind can follow a state with records and entries
C20_Witness ==
    /\ ev.dir
    /\ ev.kind = "deleted"
    /\ ev.path \in Dirs
    /\ DOMAIN records # {}
    /\ DOMAIN index # {}

C21_OtherPathsUntouched ==
    [][(ev'.kind \in EventKinds /\ ~ev'.dir)
       => \A q \in AllPaths \ {ev'.path, ev'.dest} :
             /\ get_file_record(records', q) = get_file_record(records, q)
             /\ Entry(index', q) = Entry(index, q)]_vars

\* a Moved run has deleted the record and the entry of its source while a
\* third path is recorded and indexed
C21_Witness ==
    /\ ev.kind = "moved"
    /\ ev.path = "a.txt"
    /\ ev.dest = "b.odt"
    /\ ev.before = "paired"
    /\ ev.path \notin DOMAIN records
    /\ "c.md" \in DOMAIN records
    /\ "c.md" \in DOMAIN index

\* C22: a Created or Modified run for an existing file of size 0 makes no
\* embedding call and no collection.add, and leaves the index entry of the
\* path as it was, whether or not the path was recorded or indexed before.
C22_EmptyFileNotIndexed ==
    [][(ev'.kind \in UpdateKinds /\ ~ev'.dir
          /\ ev'.path \in DOMAIN fs
          /\ FileSize(fs[ev'.path].bytes) = 0
          /\ fs' = fs)
       => /\ ~Has(ev'.calls, "embedding")
          /\ ~Has(ev'.calls, "collection.add")
          /\ ev'.result \in {"no_hash", "no_text", "unchanged"}
          /\ ~ev'.raised
          /\ Entry(index', ev'.path) = Entry(index, ev'.path)]_vars

\* a Modified run has read a recorded, indexed file that is now empty
C22_Witness ==
    /\ ev.kind = "modified"
    /\ ev.result = "no_text"
    /\ ev.before = "paired"
    /\ Has(ev.calls, "open_file")
    /\ ev.path \in DOMAIN fs
    /\ FileSize(fs[ev.path].bytes) = 0

====
